---- MODULE Spec2Model ----
(***************************************************************************)
(* baryonyx: the outer loop of the In-The-Middle solver                    *)
(* (solver_functor::operator(), lib/src/itm-solver-common.hpp) and the     *)
(* preprocessor that propagates forced assignments (class preprocessor,    *)
(* split and affect, lib/src/lpformat-io.cpp).                             *)
(*                                                                         *)
(* Two specifications share the module:                                    *)
(*   Spec    one call of solver_functor::operator()                        *)
(*   SpecPP  the preprocessor: affect(pb, v, true), affect(pb, v, false)   *)
(*           and split(pb, v) on the same problem                          *)
(*                                                                         *)
(* Variable indices are 1-based here (index i stands for i-1 in the code). *)
(* Floating-point kappa values are kept exactly, as integers scaled by the *)
(* number m of constraints.                                                *)
(***************************************************************************)
EXTENDS Integers, Sequences, FiniteSets, TLC

VARIABLES
    \* ---- solver_functor::operator() ----
    prob,            \* constraints, variables, original_costs, cost_constant, Mode
    p,               \* m_ctx->parameters (the block the solve reads and writes)
    p0,              \* the parameter block as the caller set it
    x,               \* bit_array x
    x0,              \* x after the init policy and the init_random flips
    kappa,           \* kappa, scaled by m
    i,               \* index of the main loop
    push,            \* index of the push loop
    iter,            \* index of the plain-pass loop of a push
    pc,              \* position in operator()
    start_push,      \* bool start_push
    best_remaining,  \* int best_remaining
    m_best,          \* raw_result<Mode> m_best
    r,               \* result r
    now,             \* steady_clock::now(), in ticks
    m_begin,         \* m_begin
    remaining,       \* remaining of the last pass
    exit,            \* how the main loop was left
    passes,          \* history: update passes executed <<main, amplified, plain>>
    \* ---- preprocessor ----
    pb,              \* const problem& pb
    target,          \* variable_index passed to affect / split
    job,             \* which entry point is running
    vars,            \* std::unordered_map<int, bool> vars
    counters,        \* equal_constraints, greater_constraints, less_constraints
    lifo,            \* pp_lifo of affect_variable
    cur,             \* (index, value) popped from the lifo
    pos,             \* position in the constraint list being walked
    ppc,             \* position in the preprocessor
    order,           \* evaluation order of the two branches of split
    branch,          \* index of the branch of split being computed
    out,             \* what each entry point returned
    ret,             \* result packaged by solve_problem for the last problem
    popped,          \* history: the variables popped from the lifo by the running call
    \* ---- read_constraints ----
    stack,           \* parser_stack: the constraints still to read
    raw,             \* raw_problem: the three constraint lists
    constraint_id,   \* m_current_constraint_id
    local_cst,       \* the local tuple cst of the last loop iteration
    rdpc,            \* position in read_constraints
    \* ---- compute_update_row of the solvers ----
    row,             \* the row k: factors, bounds, order of R, x before
    upd,             \* the outcome of the update of the row
    kpc,             \* position in the update
    \* ---- calls of the free functions ----
    arg,             \* the function called and its arguments
    val,             \* what the call returned or raised
    cpc              \* position in the call

solver_vars == <<prob, p, p0, x, x0, kappa, i, push, iter, pc, start_push,
                 best_remaining, m_best, r, now, m_begin, remaining, exit,
                 passes>>

pp_vars == <<pb, target, job, vars, counters, lifo, cur, pos, ppc, order, branch,
             out, ret, popped>>

rd_vars == <<stack, raw, constraint_id, local_cst, rdpc>>

row_vars == <<row, upd, kpc>>

call_vars == <<arg, val, cpc>>

\* what an action of the solver leaves alone
non_solver_vars == <<pp_vars, rd_vars, row_vars, call_vars>>

\* what an action of the preprocessor leaves alone
non_pp_vars == <<solver_vars, rd_vars, row_vars, call_vars>>

all_vars == <<solver_vars, pp_vars, rd_vars, row_vars, call_vars>>

---------------------------------------------------------------------------
(* Bounds of the model *)

\* cap on the main-loop index explored (limit <= 0 means INT_MAX passes)
MaxLoop == 2

\* the clock stops advancing at this tick
MaxClock == 2

(* Program constants *)

INT_MAX == 2147483647

\* std::numeric_limits<double>::infinity()
Infinity == 1000000

---------------------------------------------------------------------------
(* Helpers *)

Min(a, b) == IF a <= b THEN a ELSE b

Max(a, b) == IF a >= b THEN a ELSE b

SumSeq(s) ==
    LET sum[n \in 0 .. Len(s)] == IF n = 0 THEN 0 ELSE sum[n - 1] + s[n]
    IN sum[Len(s)]

\* all bit vectors of length n
Assignments(n) == [1..n -> {0, 1}]

---------------------------------------------------------------------------
(* The solver: inputs *)

Elem(f, v) == [factor |-> f, variable_index |-> v]

Merged(es, lo, hi) == [elements |-> es, min |-> lo, max |-> hi]

\* number of variables of the solver inputs
SolverVariables == 2

\* merged constraints over x1, x2 (factors +-1, min <= max)
RowSum(lo, hi) == Merged(<<Elem(1, 1), Elem(1, 2)>>, lo, hi)

RowDiff(lo, hi) == Merged(<<Elem(1, 1), Elem(-1, 2)>>, lo, hi)

\* the merged problems handed to the solver: a feasible one with one row and
\* an infeasible one with two rows
SolverProblems ==
    { <<RowSum(1, 2)>>,
      <<RowDiff(1, 1), RowSum(2, 2)>> }

\* the parameter blocks a caller may set (solver_parameters; nothing in the
\* code validates them)
Parameters ==
    { [limit |-> l, time_limit |-> tl,
       pushes_limit |-> pl[1], pushing_iteration_limit |-> pl[2],
       kappa_min |-> kmin, kappa_step |-> ks[1], kappa_max |-> 1,
       alpha |-> ks[2], w |-> w] :
        l \in {0, 2}, tl \in {0, 1},
        pl \in {<<0, 1>>, <<1, 0>>, <<1, 1>>},
        kmin \in {0, 2},
        ks \in {<<1, 0>>, <<1, 1>>},
        w \in {-1, 0} }

\* original_costs of variable j (linear cost)
OriginalCosts == [j \in 1..SolverVariables |-> j]

---------------------------------------------------------------------------
(* The solver: functions *)

\* bounds b[k] as the solver's constructor stores them
bound_min(cst) ==
    LET lower == Cardinality({e \in DOMAIN cst.elements : cst.elements[e].factor <= 0})
    IN IF cst.min = cst.max THEN cst.min ELSE Max(-lower, cst.min)

bound_max(cst) ==
    LET upper == Cardinality({e \in DOMAIN cst.elements : cst.elements[e].factor > 0})
    IN IF cst.min = cst.max THEN cst.max ELSE Min(upper, cst.max)

\* v of compute_violated_constraints: the sum of A * x over the row
RowValue(cst, xs) ==
    SumSeq([e \in DOMAIN cst.elements |->
              cst.elements[e].factor * xs[cst.elements[e].variable_index]])

\* number of rows k with !(b[k].min <= v && v <= b[k].max)
compute_violated_constraints(csts, xs) ==
    Cardinality({k \in DOMAIN csts :
                   ~(bound_min(csts[k]) <= RowValue(csts[k], xs)
                     /\ RowValue(csts[k], xs) <= bound_max(csts[k]))})

\* original_costs.results(x, cost_constant): the objective value of x
results(costs, xs, cost_constant) ==
    SumSeq([j \in DOMAIN costs |-> costs[j] * xs[j]]) + cost_constant

\* is_better_solution<Mode>(lhs, rhs)
is_better_solution(mode, lhs, rhs) ==
    IF mode = "minimize" THEN lhs < rhs ELSE lhs > rhs

\* the value a raw_result<Mode> starts with: the worst value of the mode
bad_value(mode) == IF mode = "minimize" THEN Infinity ELSE -Infinity

\* raw_result<Mode> after default construction
raw_result(mode) ==
    [x |-> <<>>, value |-> bad_value(mode), duration |-> 0, loop |-> 0,
     remaining_constraints |-> INT_MAX]

\* is_time_limit(limit, begin, end)
is_time_limit(limit, begin, end) ==
    IF limit <= 0 THEN FALSE ELSE end - begin > limit

\* a store_if_better that records every assignment as feasible
store_if_better_remaining_as_feasible(best, xs, rem, loop, t) ==
    IF best.remaining_constraints > rem
    THEN [best EXCEPT !.x = xs, !.duration = t, !.loop = loop,
                      !.remaining_constraints = 0]
    ELSE best

\* store_if_better(const bit_array& x, int remaining, int i)
store_if_better_remaining(best, xs, rem, loop, t) ==
    IF best.remaining_constraints > rem
    THEN [best EXCEPT !.x = xs, !.duration = t, !.loop = loop,
                      !.remaining_constraints = rem]
    ELSE best

\* a store_if_better that never records a feasible assignment
store_if_better_value_never(mode, best, xs, current, loop, t) == best

\* a store_if_better that does not compare the objective values
store_if_better_value_unconditional(mode, best, xs, current, loop, t) ==
    [best EXCEPT !.x = xs, !.duration = t, !.loop = loop,
                 !.remaining_constraints = 0, !.value = current]

\* store_if_better(const bit_array& x, double current, int i)
store_if_better_value(mode, best, xs, current, loop, t) ==
    IF is_better_solution(mode, current, best.value)
    THEN [best EXCEPT !.x = xs, !.duration = t, !.loop = loop,
                      !.remaining_constraints = 0, !.value = current]
    ELSE best

\* an increment that ignores alpha
kappa_increment_without_alpha(kappa_step, rem, m, alpha) == kappa_step * rem

\* kappa_step * pow(remaining / m, alpha), scaled by m (alpha is 0 or 1)
kappa_increment(kappa_step, rem, m, alpha) ==
    IF alpha = 0 THEN kappa_step * m ELSE kappa_step * rem

\* a kappa test that never stops the loop
kappa_max_never_reached(k, kappa_max, m) == FALSE

\* the test kappa > kappa_max (kappa is scaled by m)
kappa_max_reached(k, kappa_max, m) == k > kappa_max * m

\* limit adjustments without the test of pushing_iteration_limit
adjust_parameters_without_iteration_test(q) ==
    LET q1 == IF q.limit <= 0 THEN [q EXCEPT !.limit = INT_MAX] ELSE q
        q2 == IF q1.time_limit <= 0 THEN [q1 EXCEPT !.time_limit = Infinity] ELSE q1
        q3 == IF q2.pushes_limit <= 0 THEN [q2 EXCEPT !.pushes_limit = 0] ELSE q2
    IN q3

\* limit adjustments that leave a non-positive limit as it is
adjust_parameters_keeping_limit(q) ==
    LET q2 == IF q.time_limit <= 0 THEN [q EXCEPT !.time_limit = Infinity] ELSE q
        q3 == IF q2.pushes_limit <= 0 THEN [q2 EXCEPT !.pushes_limit = 0] ELSE q2
        q4 == IF q3.pushing_iteration_limit <= 0 THEN [q3 EXCEPT !.pushes_limit = 0] ELSE q3
    IN q4

\* the four limit adjustments at the head of operator()
adjust_parameters(q) ==
    LET q1 == IF q.limit <= 0 THEN [q EXCEPT !.limit = INT_MAX] ELSE q
        q2 == IF q1.time_limit <= 0 THEN [q1 EXCEPT !.time_limit = Infinity] ELSE q1
        q3 == IF q2.pushes_limit <= 0 THEN [q2 EXCEPT !.pushes_limit = 0] ELSE q2
        q4 == IF q3.pushing_iteration_limit <= 0 THEN [q3 EXCEPT !.pushes_limit = 0] ELSE q3
    IN q4

\* convert(m_best, r.solutions[0], variables)
convert(best) == [variables |-> best.x, value |-> best.value]

---------------------------------------------------------------------------
(* The solver: state machine of solver_functor::operator() *)

PPIdle ==
    /\ pb = <<>> /\ target = 0 /\ job = "none" /\ vars = <<>>
    /\ counters = <<>> /\ lifo = <<>> /\ cur = <<>> /\ pos = 0
    /\ ppc = "idle" /\ order = <<>> /\ branch = 0 /\ out = <<>> /\ ret = <<>>
    /\ popped = <<>>

ReadIdle ==
    /\ stack = <<>> /\ raw = <<>> /\ constraint_id = 0 /\ local_cst = <<>>
    /\ rdpc = "idle"

RowIdle == row = <<>> /\ upd = <<>> /\ kpc = "idle"

CallIdle == arg = <<>> /\ val = <<>> /\ cpc = "idle"

SolverInit ==
    /\ prob \in [constraints : SolverProblems,
                 variables : {SolverVariables},
                 costs : {OriginalCosts},
                 cost_constant : {0},
                 mode : {"minimize", "maximize"}]
    /\ p0 \in Parameters
    /\ p = p0
    /\ x = [j \in 1..SolverVariables |-> 0]
    /\ x0 = x
    /\ kappa = 0 /\ i = 0 /\ push = 0 /\ iter = 0
    /\ pc = "start"
    /\ start_push = FALSE
    /\ best_remaining = INT_MAX
    /\ m_best = raw_result(prob.mode)
    /\ r = [status |-> "internal_error", solutions |-> <<>>]
    /\ now = 0 /\ m_begin = 0
    /\ remaining = 0
    /\ exit = "none"
    /\ passes = <<0, 0, 0>>

Init == SolverInit /\ PPIdle /\ ReadIdle /\ RowIdle /\ CallIdle

\* number of rows (slv.m)
M == Len(prob.constraints)

\* the clock read after a pass that took d ticks
Tick(d) == Min(now + d, MaxClock)

\* lines 68-147: limits adjusted in the parameter block, initial x from the
\* init policy followed by the init_random flips, kappa = kappa_min
Start ==
    /\ pc = "start"
    /\ \E init \in Assignments(prob.variables) :
         /\ x' = init
         /\ x0' = init
    /\ p' = adjust_parameters(p)
    /\ kappa' = p.kappa_min * M
    /\ m_begin' = now
    /\ pc' = "loop"
    /\ UNCHANGED <<prob, p0, i, push, iter, start_push, best_remaining, m_best,
                   r, now, remaining, exit, passes>>
    /\ UNCHANGED non_solver_vars

\* lines 149-180: one iteration of the main loop
MainPass ==
    /\ pc = "loop"
    /\ i # p.limit
    /\ i < MaxLoop
    /\ \E nx \in Assignments(prob.variables), d \in 0..1 :
         LET t == Tick(d)
             rem == compute_violated_constraints(prob.constraints, nx)
             stored == IF rem < best_remaining
                       THEN store_if_better_remaining(m_best, nx, rem, i, t)
                       ELSE m_best
             nk == IF i > p.w
                   THEN kappa + kappa_increment(p.kappa_step, rem, M, p.alpha)
                   ELSE kappa
         IN /\ x' = nx
            /\ now' = t
            /\ remaining' = rem
            /\ passes' = [passes EXCEPT ![1] = @ + 1]
            /\ IF rem = 0
               THEN /\ m_best' = store_if_better_value(
                                   prob.mode, m_best, nx,
                                   results(prob.costs, nx, prob.cost_constant), i, t)
                    /\ best_remaining' = rem
                    /\ start_push' = TRUE
                    /\ exit' = "feasible"
                    /\ pc' = "after"
                    /\ UNCHANGED <<kappa, i, r>>
               ELSE /\ m_best' = stored
                    /\ best_remaining' = IF rem < best_remaining THEN rem ELSE best_remaining
                    /\ kappa' = nk
                    /\ start_push' = start_push
                    /\ IF kappa_max_reached(nk, p.kappa_max, M)
                       THEN /\ r' = [r EXCEPT !.status = "kappa_max_reached"]
                            /\ exit' = "kappa"
                            /\ pc' = "after"
                            /\ i' = i
                       ELSE IF is_time_limit(p.time_limit, m_begin, t)
                       THEN /\ r' = [r EXCEPT !.status = "time_limit_reached"]
                            /\ exit' = "time"
                            /\ pc' = "after"
                            /\ i' = i
                       ELSE /\ r' = r
                            /\ exit' = exit
                            /\ pc' = "loop"
                            /\ i' = i + 1
    /\ UNCHANGED <<prob, p, p0, x0, push, iter, m_begin>>
    /\ UNCHANGED non_solver_vars

\* line 149: the loop condition i != p.limit fails
MainLimit ==
    /\ pc = "loop"
    /\ i = p.limit
    /\ exit' = "limit"
    /\ pc' = "after"
    /\ UNCHANGED <<prob, p, p0, x, x0, kappa, i, push, iter, start_push,
                   best_remaining, m_best, r, now, m_begin, remaining, passes>>
    /\ UNCHANGED non_solver_vars

\* lines 182-185: limit_reached without a feasible pass, else the pushes
AfterLoop ==
    /\ pc = "after"
    /\ IF ~start_push
       THEN /\ r' = [r EXCEPT !.status = "limit_reached"]
            /\ pc' = "finish"
       ELSE /\ r' = r
            /\ pc' = "push"
    /\ push' = 0
    /\ UNCHANGED <<prob, p, p0, x, x0, kappa, i, iter, start_push,
                   best_remaining, m_best, now, m_begin, remaining, exit,
                   passes>>
    /\ UNCHANGED non_solver_vars

\* lines 185-201: the amplified pass of one push and the deadline test
AmplifiedPass ==
    /\ pc = "push"
    /\ push < p.pushes_limit
    /\ \E nx \in Assignments(prob.variables), d \in 0..1 :
         LET t == Tick(d)
             rem == compute_violated_constraints(prob.constraints, nx)
         IN /\ x' = nx
            /\ now' = t
            /\ remaining' = rem
            /\ passes' = [passes EXCEPT ![2] = @ + 1]
            /\ m_best' = IF rem = 0
                         THEN store_if_better_value(
                                prob.mode, m_best, nx,
                                results(prob.costs, nx, prob.cost_constant),
                                -push * p.pushing_iteration_limit - 1, t)
                         ELSE m_best
            /\ pc' = IF is_time_limit(p.time_limit, m_begin, t)
                     THEN "finish" ELSE "plain"
    /\ iter' = 0
    /\ UNCHANGED <<prob, p, p0, x0, kappa, i, push, start_push, best_remaining,
                   r, m_begin, exit>>
    /\ UNCHANGED non_solver_vars

\* lines 203-226: one plain pass of a push
PlainPass ==
    /\ pc = "plain"
    /\ iter < p.pushing_iteration_limit
    /\ \E nx \in Assignments(prob.variables), d \in 0..1 :
         LET t == Tick(d)
             rem == compute_violated_constraints(prob.constraints, nx)
             nk == IF iter > p.w
                   THEN kappa + kappa_increment(p.kappa_step, rem, M, p.alpha)
                   ELSE kappa
         IN /\ x' = nx
            /\ now' = t
            /\ remaining' = rem
            /\ passes' = [passes EXCEPT ![3] = @ + 1]
            /\ IF rem = 0
               THEN /\ m_best' = store_if_better_value(
                                   prob.mode, m_best, nx,
                                   results(prob.costs, nx, prob.cost_constant),
                                   -push * p.pushing_iteration_limit - iter - 1, t)
                    /\ kappa' = kappa
                    /\ iter' = iter
                    /\ push' = push + 1
                    /\ pc' = "push"
               ELSE /\ m_best' = m_best
                    /\ kappa' = nk
                    /\ IF kappa_max_reached(nk, p.kappa_max, M) \/ is_time_limit(p.time_limit, m_begin, t)
                       THEN /\ iter' = iter
                            /\ push' = push + 1
                            /\ pc' = "push"
                       ELSE /\ iter' = iter + 1
                            /\ push' = push
                            /\ pc' = "plain"
    /\ UNCHANGED <<prob, p, p0, x0, i, start_push, best_remaining, r, m_begin,
                   exit>>
    /\ UNCHANGED non_solver_vars

\* line 203: the loop condition iter < p.pushing_iteration_limit fails
PlainEnd ==
    /\ pc = "plain"
    /\ ~(iter < p.pushing_iteration_limit)
    /\ push' = push + 1
    /\ pc' = "push"
    /\ UNCHANGED <<prob, p, p0, x, x0, kappa, i, iter, start_push,
                   best_remaining, m_best, r, now, m_begin, remaining, exit,
                   passes>>
    /\ UNCHANGED non_solver_vars

\* line 185: the loop condition push < p.pushes_limit fails
PushEnd ==
    /\ pc = "push"
    /\ ~(push < p.pushes_limit)
    /\ pc' = "finish"
    /\ UNCHANGED <<prob, p, p0, x, x0, kappa, i, push, iter, start_push,
                   best_remaining, m_best, r, now, m_begin, remaining, exit,
                   passes>>
    /\ UNCHANGED non_solver_vars

\* lines 230-238: success if the best record has no violated constraint, and
\* the best assignment, if any, converted into the result
Finish ==
    /\ pc = "finish"
    /\ r' = [status |-> IF m_best.remaining_constraints = 0
                        THEN "success" ELSE r.status,
             solutions |-> IF m_best.x # <<>>
                           THEN <<convert(m_best)>> ELSE r.solutions]
    /\ pc' = "done"
    /\ UNCHANGED <<prob, p, p0, x, x0, kappa, i, push, iter, start_push,
                   best_remaining, m_best, now, m_begin, remaining, exit,
                   passes>>
    /\ UNCHANGED non_solver_vars

Next ==
    \/ Start
    \/ MainPass
    \/ MainLimit
    \/ AfterLoop
    \/ AmplifiedPass
    \/ PlainPass
    \/ PlainEnd
    \/ PushEnd
    \/ Finish

Spec == Init /\ [][Next]_all_vars

---------------------------------------------------------------------------
(* Properties of the solver *)

\* min <= sum(factor * x) <= max for every merged constraint
SatisfiesAll(csts, xs) ==
    \A k \in DOMAIN csts :
        /\ csts[k].min <= RowValue(csts[k], xs)
        /\ RowValue(csts[k], xs) <= csts[k].max

\* C1: a solve that returns success returns a solution x that satisfies
\* every merged constraint
C1_SuccessIsFeasible ==
    (pc = "done" /\ r.status = "success")
        => /\ Len(r.solutions) = 1
           /\ SatisfiesAll(prob.constraints, r.solutions[1].variables)

\* a successful solve whose best record was replaced during the pushes
C1_Witness ==
    /\ pc = "done" /\ r.status = "success"
    /\ passes[2] > 0 /\ passes[3] > 0
    /\ m_best.loop < 0

\* C2: the best record is replaced only when its remaining count strictly
\* decreases, or when the new count is 0 and the objective value strictly
\* improves in the direction of the mode; the count never increases
C2_BestMonotone ==
    [][ /\ m_best'.remaining_constraints <= m_best.remaining_constraints
        /\ (m_best' # m_best) =>
              \/ m_best'.remaining_constraints < m_best.remaining_constraints
              \/ /\ m_best'.remaining_constraints = 0
                 /\ IF prob.mode = "minimize"
                    THEN m_best'.value < m_best.value
                    ELSE m_best'.value > m_best.value ]_all_vars

\* a feasible best record (found by the main loop) replaced by a push
C2_Witness ==
    /\ m_best.remaining_constraints = 0
    /\ m_best.loop < 0
    /\ m_best.x # x

\* C3: without a feasible assignment, the status names the reason the main
\* loop stopped
C3_StatusNamesExit ==
    (pc = "done" /\ r.status # "success")
        => /\ exit = "kappa" => r.status = "kappa_max_reached"
           /\ exit = "time" => r.status = "time_limit_reached"
           /\ exit = "limit" => r.status = "limit_reached"

\* C4 as claimed: kappa <= kappa_max whenever a solve has terminated
C4_KappaBoundedAtTermination ==
    pc = "done" => kappa <= p.kappa_max * M

\* C4: with kappa_min <= kappa_max, a solve that leaves the main loop by
\* feasibility, the iteration limit or the time limit and runs no plain pass of
\* the pushes terminates with kappa <= kappa_max; a solve that leaves the
\* main loop by the kappa test terminates with kappa > kappa_max
C4_KappaAtTermination ==
    pc = "done"
        => /\ (p0.kappa_min <= p0.kappa_max /\ exit # "kappa" /\ passes[3] = 0)
                  => kappa <= p.kappa_max * M
           /\ exit = "kappa" => kappa > p.kappa_max * M

\* the iteration limit ended a solve whose kappa had grown, below the bound
C4_Witness ==
    /\ pc = "done" /\ exit = "limit"
    /\ p0.kappa_min <= p0.kappa_max
    /\ kappa > p0.kappa_min * M

C6_NoPassWithZeroLimit ==
    (pc = "done" /\ p0.limit = 0 /\ p0.pushes_limit = 0)
        => /\ passes = <<0, 0, 0>>
           /\ Len(r.solutions) = 1
           /\ r.solutions[1].variables = x0

\* C6: limit = 0 disables the iteration limit (it becomes INT_MAX), so the
\* solve runs at least one main-loop pass; pushes_limit = 0 runs no pass of
\* the pushes; the assignment returned is the best record, stored by a
\* main-loop pass
C6_ZeroLimitIsUnlimited ==
    (pc = "done" /\ p0.limit = 0 /\ p0.pushes_limit = 0)
        => /\ p.limit = INT_MAX
           /\ passes[1] >= 1
           /\ passes[2] = 0 /\ passes[3] = 0
           /\ r.solutions = <<convert(m_best)>>
           /\ m_best.loop \in 0..(passes[1] - 1)
           /\ m_best.remaining_constraints =
                compute_violated_constraints(prob.constraints, m_best.x)

\* such a solve returning another assignment than the initial one
C6_Witness ==
    /\ pc = "done" /\ p0.limit = 0 /\ p0.pushes_limit = 0
    /\ Len(r.solutions) = 1
    /\ r.solutions[1].variables # x0

---------------------------------------------------------------------------
(* The preprocessor: inputs *)

\* largest right-hand side of the constraints of the input problems
MaxValue == 1

\* pb.vars.names (every variable is binary)
Names == <<"a", "b", "c">>

\* the element lists of the input constraints
ElementLists ==
    { <<Elem(1, 1)>>,
      <<Elem(1, 2)>>,
      <<Elem(1, 1), Elem(1, 2)>>,
      <<Elem(1, 2), Elem(1, 3)>>,
      <<Elem(1, 1), Elem(-1, 3)>>,
      <<Elem(1, 1), Elem(1, 2), Elem(1, 3)>> }

\* a constraint list of the raw problem: empty, or one constraint
ConstraintLists(id) ==
    { <<>> } \cup
    { <<[id |-> id, elements |-> es, value |-> v]>> :
        es \in ElementLists, v \in 0..MaxValue }

\* the problems handed to affect and split; they carry one variable affected
\* by an earlier call
Problems ==
    [ names : {Names},
      affected_vars : { <<[name |-> "z", value |-> TRUE]>> },
      objective : { [elements |-> <<Elem(1, 1), Elem(2, 2), Elem(3, 3)>>,
                     value |-> 0] },
      equal_constraints : ConstraintLists(0),
      greater_constraints : ConstraintLists(1),
      less_constraints : ConstraintLists(2) ]

Kinds == <<"equal_constraints", "greater_constraints", "less_constraints">>

---------------------------------------------------------------------------
(* The preprocessor: functions *)

Concat(ss) ==
    LET cat[n \in 0 .. Len(ss)] == IF n = 0 THEN <<>> ELSE cat[n - 1] \o ss[n]
    IN cat[Len(ss)]

\* the indices of s, in order, that satisfy the set I
Keep(s, I) ==
    LET keep[n \in 0 .. Len(s)] ==
            IF n = 0 THEN <<>>
            ELSE keep[n - 1] \o (IF n \in I THEN <<s[n]>> ELSE <<>>)
    IN keep[Len(s)]

\* vars[index] = value
Assign(vs, index, value) ==
    [j \in DOMAIN vs \cup {index} |-> IF j = index THEN value ELSE vs[j]]

\* vars.emplace(index, value): inserts only if the key is absent
Emplace(vs, index, value) ==
    IF index \in DOMAIN vs THEN vs ELSE Assign(vs, index, value)

AsInt(b) == IF b THEN 1 ELSE 0

\* cache[variable].in_<kind>_constraints, as the constructor fills it: the
\* index of a constraint once per element on the variable, in list order
cache(problem, kind, variable) ==
    Concat([c \in DOMAIN problem[kind] |->
              Concat([e \in DOMAIN problem[kind][c].elements |->
                        IF problem[kind][c].elements[e].variable_index = variable
                        THEN <<c>> ELSE <<>>])])

\* the counters after the constructor: vectors of zeros
constructed_counters(problem) ==
    [k \in {Kinds[1], Kinds[2], Kinds[3]} |->
        [c \in DOMAIN problem[k] |-> 0]]

\* the three std::transform of operator(): the element counts
initial_counters(problem) ==
    [k \in {Kinds[1], Kinds[2], Kinds[3]} |->
        [c \in DOMAIN problem[k] |-> Len(problem[k][c].elements)]]

\* pp_lifo::pop without data.pop_back()
lifo_pop_keeping_back(data) == data

\* pp_lifo::pop: what is left in the lifo
lifo_pop(data) == SubSeq(data, 1, Len(data) - 1)

\* pp_lifo::push: refused when the variable is already in the lifo
lifo_push(data, element) ==
    IF \E e \in DOMAIN data : data[e][1] = element[1]
    THEN data
    ELSE Append(data, element)

\* reduce: the factor and index of the only variable not in vars, and the
\* value of the constraint minus the contribution of the assigned variables;
\* a failed bx_ensures aborts the call
reduce(constraint, vs) ==
    LET es == constraint.elements
        free == {e \in DOMAIN es : es[e].variable_index \notin DOMAIN vs}
        assigned == Keep([e \in DOMAIN es |-> e], DOMAIN es \ free)
        remaining_index == CHOOSE e \in free : TRUE
    IN IF Cardinality(free) # 1
       THEN [failed |-> TRUE]
       ELSE [failed |-> FALSE,
             factor |-> es[remaining_index].factor,
             variable |-> es[remaining_index].variable_index,
             result |-> constraint.value
                        - SumSeq([a \in DOMAIN assigned |->
                                    es[assigned[a]].factor
                                    * AsInt(vs[es[assigned[a]].variable_index])])]

\* decide without its last branch: a constraint that no value satisfies
\* leaves its variable free
decide_without_failure(variable, affect_0, affect_1) ==
    IF affect_0 = affect_1 THEN [outcome |-> "free"]
    ELSE [outcome |-> "assign", variable |-> variable, value |-> affect_1]

\* the end of reduce_<kind>_constraint, from affect_0 and affect_1
decide(variable, affect_0, affect_1) ==
    IF affect_0 /\ affect_1 THEN [outcome |-> "free"]
    ELSE IF affect_0 THEN [outcome |-> "assign", variable |-> variable, value |-> FALSE]
    ELSE IF affect_1 THEN [outcome |-> "assign", variable |-> variable, value |-> TRUE]
    ELSE [outcome |-> "unrealisable"]

reduce_equal_constraint(constraint, vs) ==
    LET t == reduce(constraint, vs)
    IN IF t.failed THEN [outcome |-> "internal"]
       ELSE decide(t.variable, t.factor * 0 = t.result, t.factor * 1 = t.result)

reduce_greater_constraint(constraint, vs) ==
    LET t == reduce(constraint, vs)
    IN IF t.failed THEN [outcome |-> "internal"]
       ELSE decide(t.variable, t.factor * 0 >= t.result, t.factor * 1 >= t.result)

reduce_less_constraint(constraint, vs) ==
    LET t == reduce(constraint, vs)
    IN IF t.failed THEN [outcome |-> "internal"]
       ELSE decide(t.variable, t.factor * 0 <= t.result, t.factor * 1 <= t.result)

reduce_constraint(kind, constraint, vs) ==
    IF kind = Kinds[1] THEN reduce_equal_constraint(constraint, vs)
    ELSE IF kind = Kinds[2] THEN reduce_greater_constraint(constraint, vs)
    ELSE reduce_less_constraint(constraint, vs)

\* constraints_exclude_copy: the constraints whose counter is above 1; one
\* that lost variables keeps its free elements, and its value is lowered by
\* the factors of the variables assigned to true
constraints_exclude_copy(constraints_size, constraints, vs) ==
    Concat([c \in DOMAIN constraints |->
        IF constraints_size[c] <= 1 THEN <<>>
        ELSE IF constraints_size[c] = Len(constraints[c].elements)
        THEN <<constraints[c]>>
        ELSE LET es == constraints[c].elements
                 free == {e \in DOMAIN es : es[e].variable_index \notin DOMAIN vs}
                 on == {e \in DOMAIN es : /\ e \notin free
                                          /\ vs[es[e].variable_index] = TRUE}
                 lowered == Keep(es, on)
             IN <<[id |-> constraints[c].id,
                   elements |-> Keep(es, free),
                   value |-> constraints[c].value
                             - SumSeq([a \in DOMAIN lowered |-> lowered[a].factor])]>>])

\* objective_function_exclude_copy
objective_function_exclude_copy(problem, vs) ==
    LET es == problem.objective.elements
        free == {e \in DOMAIN es : es[e].variable_index \notin DOMAIN vs}
        assigned == Keep(es, DOMAIN es \ free)
    IN [elements |-> Keep(es, free),
        value |-> problem.objective.value
                  + SumSeq([a \in DOMAIN assigned |->
                              assigned[a].factor
                              * AsInt(vs[assigned[a].variable_index])])]

\* variables_exclude_copy without the two copies of pb.affected_vars
variables_exclude_copy_without_input_affected(problem, vs) ==
    LET ns == problem.names
        fixed == Keep([j \in DOMAIN ns |-> j], DOMAIN ns \cap DOMAIN vs)
    IN <<Keep(ns, DOMAIN ns \ DOMAIN vs),
         [a \in DOMAIN fixed |-> [name |-> ns[fixed[a]], value |-> vs[fixed[a]]]]>>

\* variables_exclude_copy: <<ret_vars.names, ret_aff_vars>>
variables_exclude_copy(problem, vs) ==
    LET ns == problem.names
        free == DOMAIN ns \ DOMAIN vs
        fixed == Keep([j \in DOMAIN ns |-> j], DOMAIN ns \cap DOMAIN vs)
    IN <<Keep(ns, free),
         problem.affected_vars
         \o [a \in DOMAIN fixed |-> [name |-> ns[fixed[a]], value |-> vs[fixed[a]]]]>>

\* make_problem
make_problem(problem, vs, sizes) ==
    [ names |-> variables_exclude_copy(problem, vs)[1],
      affected_vars |-> variables_exclude_copy(problem, vs)[2],
      objective |-> objective_function_exclude_copy(problem, vs),
      equal_constraints |->
          constraints_exclude_copy(sizes.equal_constraints,
                                   problem.equal_constraints, vs),
      greater_constraints |->
          constraints_exclude_copy(sizes.greater_constraints,
                                   problem.greater_constraints, vs),
      less_constraints |->
          constraints_exclude_copy(sizes.less_constraints,
                                   problem.less_constraints, vs) ]

\* lines 327-331 of solve_problem: the names and the affected variables of
\* the problem go into the result
solve_problem_result(problem) ==
    [ variable_name |-> problem.names,
      affected_vars |-> problem.affected_vars,
      variables |-> Len(problem.names) ]

\* operator() without vars.clear()
cleared_vars_kept(vs) == vs

\* vars.clear() at the head of operator()
cleared_vars(vs) == <<>>

---------------------------------------------------------------------------
(* The preprocessor: affect(pb, v, true), affect(pb, v, false) and         *)
(* split(pb, v), one after the other on the same problem                   *)

Jobs == <<"affect_true", "affect_false", "split">>

NextJob(j) == IF j = Jobs[1] THEN Jobs[2] ELSE Jobs[3]

SolverIdle ==
    /\ prob = <<>> /\ p = <<>> /\ p0 = <<>> /\ x = <<>> /\ x0 = <<>>
    /\ kappa = 0 /\ i = 0 /\ push = 0 /\ iter = 0 /\ pc = "idle"
    /\ start_push = FALSE /\ best_remaining = 0 /\ m_best = <<>>
    /\ r = <<>> /\ now = 0 /\ m_begin = 0 /\ remaining = 0
    /\ exit = "none" /\ passes = <<>>

PPInit ==
    /\ SolverIdle /\ ReadIdle /\ RowIdle /\ CallIdle
    /\ pb \in Problems
    /\ target \in DOMAIN Names
    /\ job = Jobs[1]
    /\ vars = <<>>
    /\ counters = <<>>
    /\ lifo = <<>>
    /\ cur = <<>>
    /\ pos = 0
    /\ ppc = "construct"
    /\ order = <<>>
    /\ branch = 0
    /\ out = [j \in {Jobs[1], Jobs[2], Jobs[3]} |->
                [state |-> "none", problems |-> <<>>]]
    /\ ret = <<>>
    /\ popped = <<>>

\* preprocessor::preprocessor, called by affect and by split; the two
\* arguments of make_tuple in split are evaluated in an unspecified order
Construct ==
    /\ ppc = "construct"
    /\ vars' = <<>>
    /\ counters' = constructed_counters(pb)
    /\ order' \in IF job = "split"
                  THEN {<<TRUE, FALSE>>, <<FALSE, TRUE>>}
                  ELSE {<<job = "affect_true">>}
    /\ branch' = 1
    /\ ppc' = "call"
    /\ UNCHANGED <<popped, pb, target, job, lifo, cur, pos, out, ret>>
    /\ UNCHANGED non_pp_vars

\* preprocessor::operator() up to the while loop of affect_variable
Call ==
    /\ ppc = "call"
    /\ vars' = Assign(cleared_vars(vars), target, order[branch])
    /\ counters' = initial_counters(pb)
    /\ lifo' = << <<target, order[branch]>> >>
    /\ ppc' = "while"
    /\ popped' = <<>>
    /\ UNCHANGED <<pb, target, job, cur, pos, order, branch, out, ret>>
    /\ UNCHANGED non_pp_vars

\* while (!lifo.empty()): std::tie(index, value) = lifo.pop()
Pop ==
    /\ ppc = "while"
    /\ lifo # <<>>
    /\ cur' = lifo[Len(lifo)]
    /\ lifo' = lifo_pop(lifo)
    /\ pos' = 1
    /\ ppc' = Kinds[1]
    /\ popped' = Append(popped, lifo[Len(lifo)][1])
    /\ UNCHANGED <<pb, target, job, vars, counters, order, branch, out, ret>>
    /\ UNCHANGED non_pp_vars

\* one iteration of the loop over cache[index].in_<kind>_constraints
Visit(kind) ==
    /\ ppc = kind
    /\ pos <= Len(cache(pb, kind, cur[1]))
    /\ LET cst == cache(pb, kind, cur[1])[pos]
           size == counters[kind][cst]
           v == reduce_constraint(kind, pb[kind][cst], vars)
       IN IF size <= 0
          THEN /\ pos' = pos + 1
               /\ UNCHANGED <<vars, counters, lifo, ppc>>
          ELSE IF size - 1 # 1
          THEN /\ counters' = [counters EXCEPT ![kind][cst] = size - 1]
               /\ pos' = pos + 1
               /\ UNCHANGED <<vars, lifo, ppc>>
          ELSE IF v.outcome \in {"unrealisable", "internal"}
          THEN /\ counters' = [counters EXCEPT ![kind][cst] = size - 1]
               /\ ppc' = v.outcome
               /\ UNCHANGED <<vars, lifo, pos>>
          ELSE /\ counters' = [counters EXCEPT ![kind][cst] = 0]
               /\ pos' = pos + 1
               /\ ppc' = ppc
               /\ IF v.outcome = "assign"
                  THEN /\ vars' = Assign(vars, v.variable, v.value)
                       /\ lifo' = lifo_push(lifo, <<v.variable, v.value>>)
                  ELSE UNCHANGED <<vars, lifo>>
    /\ UNCHANGED <<popped, pb, target, job, cur, order, branch, out, ret>>
    /\ UNCHANGED non_pp_vars

VisitEqual == Visit(Kinds[1])

VisitGreater == Visit(Kinds[2])

VisitLess == Visit(Kinds[3])

\* the end of one of the three loops
NextList ==
    /\ ppc \in {Kinds[1], Kinds[2], Kinds[3]}
    /\ pos > Len(cache(pb, ppc, cur[1]))
    /\ ppc' = IF ppc = Kinds[1] THEN Kinds[2]
              ELSE IF ppc = Kinds[2] THEN Kinds[3]
              ELSE "emplace"
    /\ pos' = 1
    /\ UNCHANGED <<popped, pb, target, job, vars, counters, lifo, cur, order, branch,
                   out, ret>>
    /\ UNCHANGED non_pp_vars

\* vars.emplace(index, value) at the end of the while body
EmplaceVariable ==
    /\ ppc = "emplace"
    /\ vars' = Emplace(vars, cur[1], cur[2])
    /\ ppc' = "while"
    /\ UNCHANGED <<popped, pb, target, job, counters, lifo, cur, pos, order, branch,
                   out, ret>>
    /\ UNCHANGED non_pp_vars

\* the lifo is empty: make_problem(), and the entry point returns (affect) or
\* goes on with the other branch (split)
MakeProblem ==
    /\ ppc = "while"
    /\ lifo = <<>>
    /\ LET q == make_problem(pb, vars, counters)
       IN IF job # "split"
          THEN /\ out' = [out EXCEPT ![job] = [state |-> "ok", problems |-> <<q>>]]
               /\ ppc' = "solve"
               /\ branch' = branch
          ELSE IF branch = 1
          THEN /\ out' = [out EXCEPT ![job] = [state |-> "partial", problems |-> <<q>>]]
               /\ ppc' = "call"
               /\ branch' = 2
          ELSE /\ out' = [out EXCEPT ![job] =
                            [state |-> "ok",
                             problems |-> IF order[1]
                                          THEN <<out[job].problems[1], q>>
                                          ELSE <<q, out[job].problems[1]>>]]
               /\ ppc' = "done"
               /\ branch' = branch
    /\ UNCHANGED <<popped, pb, target, job, vars, counters, lifo, cur, pos, order, ret>>
    /\ UNCHANGED non_pp_vars

\* bx_reach() or a failed bx_ensures: the entry point is left without a result
Abort ==
    /\ ppc \in {"unrealisable", "internal"}
    /\ out' = [out EXCEPT ![job] = [state |-> ppc, problems |-> <<>>]]
    /\ IF job = "split"
       THEN /\ ppc' = "done"
            /\ job' = job
       ELSE /\ ppc' = "construct"
            /\ job' = NextJob(job)
    /\ UNCHANGED <<popped, pb, target, vars, counters, lifo, cur, pos, order, branch, ret>>
    /\ UNCHANGED non_pp_vars

\* solve_problem on the problem affect returned: the result carries the names
\* and the affected variables of the problem
SolveProblem ==
    /\ ppc = "solve"
    /\ ret' = solve_problem_result(out[job].problems[1])
    /\ job' = NextJob(job)
    /\ ppc' = "construct"
    /\ UNCHANGED <<popped, pb, target, vars, counters, lifo, cur, pos, order, branch, out>>
    /\ UNCHANGED non_pp_vars

PPNext ==
    \/ Construct
    \/ Call
    \/ Pop
    \/ VisitEqual
    \/ VisitGreater
    \/ VisitLess
    \/ NextList
    \/ EmplaceVariable
    \/ MakeProblem
    \/ Abort
    \/ SolveProblem

SpecPP == PPInit /\ [][PPNext]_all_vars

---------------------------------------------------------------------------
(* The preprocessor: properties *)

\* the value of the left-hand side of a constraint under the assignment y of
\* the variables of the input problem; an element is read as the variable
\* it denotes in the input problem
Lhs(constraint, y) ==
    SumSeq([e \in DOMAIN constraint.elements |->
              constraint.elements[e].factor
              * AsInt(y[constraint.elements[e].variable_index])])

Holds(kind, constraint, y) ==
    IF kind = Kinds[1] THEN Lhs(constraint, y) = constraint.value
    ELSE IF kind = Kinds[2] THEN Lhs(constraint, y) >= constraint.value
    ELSE Lhs(constraint, y) <= constraint.value

SatisfiesProblem(problem, y) ==
    \A k \in {Kinds[1], Kinds[2], Kinds[3]} :
        \A c \in DOMAIN problem[k] : Holds(k, problem[k][c], y)

\* the assignments of the input variables that carry the values recorded
\* for the affected variables
Extensions(vs) ==
    {y \in [DOMAIN Names -> BOOLEAN] : \A j \in DOMAIN vs : y[j] = vs[j]}

\* C7: when affect returns, every assignment that satisfies all constraints
\* of the reduced problem, extended with the values of the affected
\* variables, satisfies every equal, greater and less constraint of the input
C7_Equisatisfiable ==
    ppc = "solve" =>
        \A y \in Extensions(vars) :
            SatisfiesProblem(out[job].problems[1], y) => SatisfiesProblem(pb, y)

\* the constraint visited next has just become decisive and neither value of
\* its only free variable satisfies it
DecisiveUnrealisable(kind) ==
    /\ ppc = kind
    /\ pos <= Len(cache(pb, kind, cur[1]))
    /\ LET c == cache(pb, kind, cur[1])[pos]
           es == pb[kind][c].elements
           free == {e \in DOMAIN es : es[e].variable_index \notin DOMAIN vars}
       IN /\ counters[kind][c] = 2
          /\ Cardinality(free) = 1
          /\ \A y \in [DOMAIN Names -> BOOLEAN] :
                (\A j \in DOMAIN vars : y[j] = vars[j])
                    => ~Holds(kind, pb[kind][c], y)

C9_SplitIsBothAffects ==
    ppc = "done" =>
        IF out[Jobs[1]].state = "ok" /\ out[Jobs[2]].state = "ok"
        THEN out[Jobs[3]] =
                [state |-> "ok",
                 problems |-> <<out[Jobs[1]].problems[1],
                                out[Jobs[2]].problems[1]>>]
        ELSE out[Jobs[3]].state \in {"unrealisable", "internal"}

C9_Witness ==
    /\ ppc = "done"
    /\ out[Jobs[3]].state = "ok"
    /\ order = <<TRUE, FALSE>>
    /\ Len(out[Jobs[3]].problems[1].affected_vars) = 3
    /\ out[Jobs[3]].problems[2].names = <<"b", "c">>

\* the number of places of the sequence s that hold n
Occurrences(s, n) == Cardinality({k \in DOMAIN s : s[k] = n})

\* C10: when affect has returned and solve_problem has run on its problem,
\* every input variable is exactly once in the output, in the reduced
\* variables when it is not assigned and in affected_vars with the value of
\* the propagation otherwise; the affected variables of the input come
\* first, the sizes add up, and the result carries the same affected list
C10_VariablesPartitioned ==
    \A j \in {1, 2} :
        (ppc = "construct" /\ job = Jobs[j + 1] /\ out[Jobs[j]].state = "ok") =>
            LET q == out[Jobs[j]].problems[1]
                affected == [a \in DOMAIN q.affected_vars |-> q.affected_vars[a].name]
            IN /\ \A n \in DOMAIN pb.names :
                    /\ Occurrences(q.names \o affected, pb.names[n]) = 1
                    /\ IF n \in DOMAIN vars
                       THEN \E a \in DOMAIN q.affected_vars :
                               q.affected_vars[a] =
                                   [name |-> pb.names[n], value |-> vars[n]]
                       ELSE Occurrences(q.names, pb.names[n]) = 1
               /\ vars[target] = (j = 1)
               /\ SubSeq(q.affected_vars, 1, Len(pb.affected_vars)) = pb.affected_vars
               /\ Len(q.names) + Len(q.affected_vars)
                    = Len(pb.names) + Len(pb.affected_vars)
               /\ ret.affected_vars = q.affected_vars
               /\ ret.variable_name = q.names

C10_Witness ==
    /\ ppc = "construct" /\ job = Jobs[2] /\ out[Jobs[1]].state = "ok"
    /\ Len(out[Jobs[1]].problems[1].names) = 1
    /\ Len(ret.affected_vars) = 3

---------------------------------------------------------------------------
(* solve_problem: the merged constraints are built, the solver is called    *)
(* when there is something to solve, and the result is completed            *)

SolveProblemInit ==
    /\ prob \in [constraints : SolverProblems \cup {<<>>},
                 variables : {SolverVariables},
                 costs : {OriginalCosts},
                 cost_constant : {0},
                 mode : {"minimize", "maximize"}]
    /\ p0 \in Parameters
    /\ p = p0
    /\ x = [j \in 1..SolverVariables |-> 0]
    /\ x0 = x
    /\ kappa = 0 /\ i = 0 /\ push = 0 /\ iter = 0
    /\ pc = "solve_problem"
    /\ start_push = FALSE
    /\ best_remaining = INT_MAX
    /\ m_best = raw_result(prob.mode)
    /\ r = [status |-> "internal_error", solutions |-> <<>>]
    /\ now = 0 /\ m_begin = 0
    /\ remaining = 0
    /\ exit = "none"
    /\ passes = <<0, 0, 0>>
    /\ PPIdle /\ ReadIdle /\ RowIdle /\ CallIdle

\* lines 291-325: the solver runs when there are constraints and variables;
\* otherwise the status is set to success and nothing else
SolveProblemEnter ==
    /\ pc = "solve_problem"
    /\ IF prob.constraints # <<>> /\ prob.variables > 0
       THEN /\ pc' = "start"
            /\ r' = r
       ELSE /\ pc' = "trivial"
            /\ r' = [r EXCEPT !.status = "success"]
    /\ UNCHANGED <<prob, p, p0, x, x0, kappa, i, push, iter, start_push,
                   best_remaining, m_best, now, m_begin, remaining, exit,
                   passes>>
    /\ UNCHANGED non_solver_vars

\* lines 327-336: the result of solve_problem
SolveProblemReturn ==
    /\ pc \in {"done", "trivial"}
    /\ ret' = [status |-> r.status,
               solutions |-> r.solutions,
               variables |-> prob.variables,
               constraints |-> Len(prob.constraints)]
    /\ pc' = "returned"
    /\ UNCHANGED <<prob, p, p0, x, x0, kappa, i, push, iter, start_push,
                   best_remaining, m_best, r, now, m_begin, remaining, exit,
                   passes>>
    /\ UNCHANGED <<popped, pb, target, job, vars, counters, lifo, cur, pos, ppc, order,
                   branch, out>>
    /\ UNCHANGED <<rd_vars, row_vars, call_vars>>

NextSolve ==
    \/ SolveProblemEnter
    \/ Start
    \/ MainPass
    \/ MainLimit
    \/ AfterLoop
    \/ AmplifiedPass
    \/ PlainPass
    \/ PlainEnd
    \/ PushEnd
    \/ Finish
    \/ SolveProblemReturn

SpecSolve == SolveProblemInit /\ [][NextSolve]_all_vars

\* C11: solve_problem on a problem without merged constraints returns
\* success and a solution vector, one value per variable
C11_EmptyProblemHasSolution ==
    (pc = "returned" /\ prob.constraints = <<>>)
        => /\ ret.status = "success"
           /\ Len(ret.solutions) = 1
           /\ Len(ret.solutions[1].variables) = prob.variables

---------------------------------------------------------------------------
(* Properties of the solver: status, pushes, deadline, parameter block *)

LimitStatuses == {"limit_reached", "kappa_max_reached", "time_limit_reached"}

\* C12: the status returned by the solver is success or one of the three
\* limit statuses, never internal_error; a limit status comes with the best
\* assignment seen: the best record is returned, and after every update pass
\* the best record violates at most as many constraints as the pass left
C12_NeverInternalError ==
    [][ /\ pc' = "done" =>
              /\ r'.status \in {"success"} \cup LimitStatuses
              /\ r'.status \in LimitStatuses =>
                    /\ m_best'.x # <<>>
                    /\ r'.solutions = <<convert(m_best')>>
                    /\ m_best'.remaining_constraints =
                         compute_violated_constraints(prob.constraints, m_best'.x)
        /\ passes' # passes =>
              m_best'.remaining_constraints <= remaining' ]_all_vars

\* a solve stopped by the iteration limit that returns the assignment of its
\* second pass
C12_Witness ==
    /\ pc = "done"
    /\ r.status = "limit_reached"
    /\ exit = "limit"
    /\ passes[1] = 2
    /\ m_best.loop = 1

\* C13: the pushes are entered only after a main-loop pass with remaining = 0
\* and no main-loop pass follows; at most pushes_limit amplified passes run,
\* each followed by at most pushing_iteration_limit plain passes; a
\* non-positive pushes_limit or pushing_iteration_limit gives no pass of the
\* pushes at all
C13_PushingBounded ==
    [][ /\ pc' \in {"push", "plain"} =>
              /\ start_push' /\ exit' = "feasible"
              /\ compute_violated_constraints(prob.constraints, m_best'.x) = 0
        /\ pc \in {"push", "plain", "finish", "done"} =>
              /\ passes'[1] = passes[1]
              /\ pc' \notin {"start", "loop", "after"}
        /\ passes'[2] <= Max(p0.pushes_limit, 0)
        /\ passes'[3] > passes[3] =>
              /\ passes'[2] = passes[2]
              /\ passes[2] > 0
              /\ iter < p0.pushing_iteration_limit
        /\ passes'[3] <= passes'[2] * Max(p0.pushing_iteration_limit, 0)
        /\ (p0.pushes_limit <= 0 \/ p0.pushing_iteration_limit <= 0) =>
              passes'[2] = 0 /\ passes'[3] = 0 ]_all_vars

\* a feasible solve with pushes_limit = 1 and pushing_iteration_limit = 0 has
\* ended without a pass of the pushes
C13_Witness ==
    /\ pc = "done"
    /\ exit = "feasible"
    /\ p0.pushes_limit = 1 /\ p0.pushing_iteration_limit = 0
    /\ passes[2] = 0

\* C14: once the time limit has been exceeded, no further update pass
\* (main-loop pass, amplified pass or plain pass of a push) is started
C14_NoPassAfterDeadline ==
    [][ (/\ pc \in {"loop", "after", "push", "plain"}
         /\ is_time_limit(p.time_limit, m_begin, now))
            => passes' = passes ]_all_vars

\* C15: when the solve has returned, limit, time_limit, pushes_limit and
\* pushing_iteration_limit of the parameter block have the values the caller
\* set
C15_ParametersUnchanged ==
    pc = "done" =>
        /\ p.limit = p0.limit
        /\ p.time_limit = p0.time_limit
        /\ p.pushes_limit = p0.pushes_limit
        /\ p.pushing_iteration_limit = p0.pushing_iteration_limit

\* 0.0001 s on the clock of the model, whose tick is 0.00005 s: a
\* time_limit of 1 is a positive limit below 0.0001 s
ShortTimeLimit == 2

\* C16: with a positive time_limit below 0.0001 s the deadline test never
\* reports the limit as reached and the solve never stops because of time
C16_ShortTimeLimitDisabled ==
    (p0.time_limit > 0 /\ p0.time_limit < ShortTimeLimit /\ pc # "start")
        => /\ ~is_time_limit(p.time_limit, m_begin, now)
           /\ exit # "time"

---------------------------------------------------------------------------
(* read_constraints: the constraint section of an lp file *)

\* largest number of constraints written in the section
MaxConstraints == 3

\* the labels a file may give to its first, second, ... constraint
WrittenLabels == <<"a", "b", "c", "d">>

\* the k-th constraint as written: with or without a label, one variable,
\* an operator and a value
Written(k) ==
    [label : {"", WrittenLabels[k]},
     elements : {<<Elem(1, k)>>},
     token : {<<"<", "=">>, <<">", "=">>, <<"=">>, <<"=", "<">>},
     value : {1}]

RECURSIVE Sections(_)
Sections(n) ==
    IF n = 0 THEN {<<>>}
    ELSE Sections(n - 1)
         \cup {Append(t, w) : t \in {u \in Sections(n - 1) : Len(u) = n - 1},
                              w \in Written(n)}

\* read_operator: the operator at the front of the characters str and the
\* number of characters taken by substr_front; any other first character
\* throws file_format_failure(bad_operator)
read_operator(str) ==
    LET second(ch) == Len(str) > 1 /\ str[2] = ch
    IN IF str[1] = "<"
       THEN [type |-> "less", front |-> IF second("=") THEN 2 ELSE 1]
       ELSE IF str[1] = ">"
       THEN [type |-> "greater", front |-> IF second("=") THEN 2 ELSE 1]
       ELSE IF str[1] = "="
       THEN IF second("<") THEN [type |-> "less", front |-> 2]
            ELSE IF second("=") THEN [type |-> "greater", front |-> 2]
            ELSE [type |-> "equal", front |-> 1]
       ELSE [type |-> "bad_operator", front |-> 0]

\* read_constraint: the constraint (its id not yet set) and its operator
read_constraint(written) ==
    [constraint |-> [id |-> 0, label |-> written.label,
                     elements |-> written.elements, value |-> written.value],
     type |-> read_operator(written.token).type]

\* fmt::format("ct{}", id)
default_label(id) == "ct" \o ToString(id)

ReadInit ==
    /\ SolverIdle /\ PPIdle /\ RowIdle /\ CallIdle
    /\ stack \in Sections(MaxConstraints)
    /\ raw = [k \in {Kinds[1], Kinds[2], Kinds[3]} |-> <<>>]
    /\ constraint_id = 0
    /\ local_cst = <<>>
    /\ rdpc = "constraints"

\* one iteration of the while loop: the constraint is read, receives its id
\* and is copied into the list of its operator; then the local tuple
\* receives the default label if it has none, and the id advances
ReadConstraint ==
    /\ rdpc = "constraints"
    /\ stack # <<>>
    /\ LET t == read_constraint(Head(stack))
           c == [t.constraint EXCEPT !.id = constraint_id]
           list == IF t.type = "equal" THEN Kinds[1]
                   ELSE IF t.type = "greater" THEN Kinds[2]
                   ELSE Kinds[3]
       IN /\ raw' = [raw EXCEPT ![list] = Append(@, c)]
          /\ local_cst' = IF c.label = ""
                          THEN [c EXCEPT !.label = default_label(constraint_id)]
                          ELSE c
    /\ constraint_id' = constraint_id + 1
    /\ stack' = Tail(stack)
    /\ UNCHANGED rdpc
    /\ UNCHANGED <<solver_vars, pp_vars, row_vars, call_vars>>

\* the loop ends at the keyword of the next section
ReadEnd ==
    /\ rdpc = "constraints"
    /\ stack = <<>>
    /\ rdpc' = "end"
    /\ UNCHANGED <<stack, raw, constraint_id, local_cst>>
    /\ UNCHANGED <<solver_vars, pp_vars, row_vars, call_vars>>

NextRead == ReadConstraint \/ ReadEnd

SpecRead == ReadInit /\ [][NextRead]_all_vars

\* the constraints stored in the three lists of the raw problem
Stored == raw[Kinds[1]] \o raw[Kinds[2]] \o raw[Kinds[3]]

\* C17: after read_constraints every stored constraint has a non-empty
\* label, and no two stored constraints have the same label
C17_LabelsNonEmpty ==
    rdpc = "end" =>
        /\ \A c \in DOMAIN Stored : Stored[c].label # ""
        /\ \A c, d \in DOMAIN Stored :
              Stored[c].label = Stored[d].label => c = d

---------------------------------------------------------------------------
(* The row-update kernels: inputs *)

\* bound: the longest row drawn (the example row of five variables apart)
MaxRow == 3

\* bound: the finite sides of a merged row lie in -MaxSide .. MaxSide
MaxSide == 2

\* std::numeric_limits<int>::min(), the open lower side of a merged row
INT_MIN == -INT_MAX - 1

non_row_vars == <<solver_vars, pp_vars, rd_vars, call_vars>>

\* factors of the rows of the 101 solvers and of the Z solver
Factors101 == {-1, 1}

FactorsZ == {-2, -1, 2, 3}

\* a merged constraint over the variables 1 .. Len(A)
MergedRow(A, lo, hi) ==
    [elements |-> [e \in DOMAIN A |-> [factor |-> A[e], variable_index |-> e]],
     min |-> lo, max |-> hi]

\* the sides a merged row can carry: min <= max, either side possibly open
RowSides ==
    {s \in (({INT_MIN} \cup (-MaxSide .. MaxSide)) \X ((-MaxSide .. MaxSide) \cup {INT_MAX})) :
        s[1] <= s[2]}

MergedRows(F) ==
    {MergedRow(A, s[1], s[2]) : A \in UNION {[1 .. n -> F] : n \in 1 .. MaxRow}, s \in RowSides}

\* -x1 - x2 + x3 + x4 + x5 = 2
ExampleRow == MergedRow(<<-1, -1, 1, 1, 1>>, 2, 2)

\* the orders calculator_sort can leave in R: R[i] is the id of the i-th entry
Orders(n) == {o \in [1 .. n -> 1 .. n] : \A ix, j \in 1 .. n : o[ix] = o[j] => ix = j}

\* the answers of stop_iterating(R[i].value, ...) for the entries of R
Stops(n) == [1 .. n -> BOOLEAN]

NeverStop(n) == [ix \in 1 .. n |-> FALSE]

r_size(cst) == Len(cst.elements)

factor(cst, e) == cst.elements[e].factor

\* C[k]: the elements of the row with a negative factor
C(cst) == {e \in DOMAIN cst.elements : factor(cst, e) < 0}

\* Z[k]: the row has a factor other than -1, 0, 1
Z(cst) == \E e \in DOMAIN cst.elements : factor(cst, e) > 1 \/ factor(cst, e) < -1

\* bounds b(k) as the constructor of the Z solver stores them
Zcoeff_lower(cst) ==
    SumSeq([e \in DOMAIN cst.elements |-> IF factor(cst, e) < 0 THEN factor(cst, e) ELSE 0])

Zcoeff_upper(cst) ==
    SumSeq([e \in DOMAIN cst.elements |-> IF factor(cst, e) > 0 THEN factor(cst, e) ELSE 0])

Zcoeff_bound_min(cst) ==
    IF cst.min = cst.max THEN cst.min
    ELSE IF cst.min = INT_MIN THEN Zcoeff_lower(cst)
    ELSE IF Zcoeff_lower(cst) < 0 THEN Max(Zcoeff_lower(cst), cst.min)
    ELSE cst.min

Zcoeff_bound_max(cst) ==
    IF cst.min = cst.max THEN cst.max
    ELSE IF cst.max = INT_MAX THEN Zcoeff_upper(cst)
    ELSE cst.max

\* b(k) of the row under the solver that holds it
b_min(rw) == IF rw.solver = "Z" THEN Zcoeff_bound_min(rw.cst) ELSE bound_min(rw.cst)

b_max(rw) == IF rw.solver = "Z" THEN Zcoeff_bound_max(rw.cst) ELSE bound_max(rw.cst)

\* the rows of a solver: every order of R and every answer of stop_iterating
RowsOf(name, csts) ==
    UNION {{[solver |-> name, cst |-> cst, R |-> o, stop |-> st] :
              o \in Orders(r_size(cst)), st \in Stops(r_size(cst))} : cst \in csts}

RowsNeverStop(name, csts) ==
    UNION {{[solver |-> name, cst |-> cst, R |-> o, stop |-> NeverStop(r_size(cst))] :
              o \in Orders(r_size(cst))} : cst \in csts}

---------------------------------------------------------------------------
(* The row-update kernels: functions *)

\* the index in R, counted from 0 as in the code, of the entry of element e
place(R, e) == (CHOOSE ix \in DOMAIN R : R[ix] = e) - 1

\* affect_variables: no entry, every entry, or the first selected + 1 entries
\* of R are set to 1 and the others to 0
affect_variables(R, selected, rsize) ==
    [e \in 1 .. rsize |->
        IF selected < 0 THEN 0
        ELSE IF selected + 1 >= rsize THEN 1
        ELSE IF place(R, e) <= selected THEN 1 ELSE 0]

\* the clean-up loop of the kernels: x = !x for the elements of C[k]
clean_up(cst, xs) == [e \in DOMAIN xs |-> IF e \in C(cst) THEN 1 - xs[e] ELSE xs[e]]

\* bk = std::min(bk, r_size); return bk - 1;
select_variables_equality(rsize, bk) == Min(bk, rsize) - 1

\* the reads of R past the row when the loop below starts above its end: a
\* later entry of the buffer stops it or it leaves the buffer; every index it
\* can return is r_size - 1 or more, which affect_variables treats alike
RowOverrun(rsize) == {rsize - 1, rsize}

\* for (i = bkmin; i != bkmax; ++i) if (stop_iterating(R[i])) return i - 1;
\* return bkmax - 1;  -- the set of the indices the call can return
select_variables_inequality(rsize, bkmin, bkmax, stop) ==
    LET lo == Min(bkmin, rsize)
        hi == Min(bkmax, rsize)
        stopped(last) == {ix \in lo .. last : (ix + 1) \in DOMAIN stop /\ stop[ix + 1]}
        first(S) == CHOOSE ix \in S : \A j \in S : ix <= j
    IN IF lo <= hi
       THEN IF stopped(hi - 1) = {} THEN {hi - 1} ELSE {first(stopped(hi - 1)) - 1}
       ELSE IF stopped(rsize - 1) = {} THEN RowOverrun(rsize)
            ELSE {first(stopped(rsize - 1)) - 1}

\* the sum of the factors of the first n entries of R
prefix(cst, R, n) == SumSeq([ix \in 1 .. n |-> factor(cst, R[ix])])

\* knapsack_dp_solver(A, R, it, it + r_size, bk): the indices it can return
knapsack_dp_solver(rsize) == -1 .. (rsize - 1)

\* the prefix scan of select_variables_equality_Z: the index it returns, if any
scan_equality_Z(cst, R, rsize, bk) ==
    {ix \in 0 .. (rsize - 1) :
        /\ prefix(cst, R, ix + 1) = bk
        /\ \A j \in 0 .. (ix - 1) :
              /\ prefix(cst, R, j + 1) # bk
              /\ (j >= 1 => prefix(cst, R, j + 1) <= bk)}

\* the prefix scan of select_variables_inequality_Z
scan_inequality_Z(cst, R, rsize, bkmin, bkmax) ==
    {ix \in 0 .. (rsize - 1) :
        /\ bkmin <= prefix(cst, R, ix + 1) /\ prefix(cst, R, ix + 1) <= bkmax
        /\ \A j \in 0 .. (ix - 1) :
              /\ ~(bkmin <= prefix(cst, R, j + 1) /\ prefix(cst, R, j + 1) <= bkmax)
              /\ (j >= 1 => prefix(cst, R, j + 1) <= bkmax)}

\* the scan's index, or the answer of the dynamic program when the scan fails
select_variables_Z(scan, rsize) ==
    IF scan # {} THEN {[selected |-> ix, dp |-> FALSE] : ix \in scan}
    ELSE {[selected |-> ix, dp |-> TRUE] : ix \in knapsack_dp_solver(rsize)}

select_variables_equality_Z(cst, R, rsize, bk) ==
    select_variables_Z(scan_equality_Z(cst, R, rsize, bk), rsize)

select_variables_inequality_Z(cst, R, rsize, bkmin, bkmax) ==
    select_variables_Z(scan_inequality_Z(cst, R, rsize, bkmin, bkmax), rsize)

\* bk_move: the sum of the factors of the elements of C[k]
bk_move(cst) == SumSeq([e \in DOMAIN cst.elements |-> IF e \in C(cst) THEN factor(cst, e) ELSE 0])

\* std::abs
abs(v) == IF v < 0 THEN -v ELSE v

\* is_valid_constraint(slv, k, x): b[k].min <= sum of A * x <= b[k].max
is_valid_constraint(rw, xs) ==
    b_min(rw) <= RowValue(rw.cst, xs) /\ RowValue(rw.cst, xs) <= b_max(rw)

\* the first loop of the random solver's compute_update_row: entries are set
\* until the running value reaches b[k].min or the row ends
random_reach(cst, R, rsize, bmin) ==
    IF bmin <= 0 THEN 0
    ELSE LET reached == {n \in 1 .. rsize : bmin <= prefix(cst, R, n)}
         IN IF reached = {} THEN rsize ELSE CHOOSE n \in reached : \A m \in reached : n <= m

\* its second loop: entries are set while the running value stays within
\* [b[k].min, b[k].max]; the first entry that leaves it and, by the third
\* loop, all the later ones are cleared
random_extend(cst, R, rsize, bmin, bmax, n1) ==
    LET within(n) == bmin <= prefix(cst, R, n) /\ prefix(cst, R, n) <= bmax
        kept == {n \in n1 .. rsize : \A m \in n1 .. n : within(m)}
    IN IF kept = {} THEN n1 ELSE CHOOSE n \in kept : \A m \in kept : m <= n

random_assignment(cst, R, rsize, bmin, bmax) ==
    LET ones == random_extend(cst, R, rsize, bmin, bmax, random_reach(cst, R, rsize, bmin))
    IN [e \in 1 .. rsize |-> IF place(R, e) < ones THEN 1 ELSE 0]

---------------------------------------------------------------------------
(* The row-update kernels: one local update of one row *)

BufferedRows ==
    RowsOf("buffered", MergedRows(Factors101)) \cup RowsNeverStop("buffered", {ExampleRow})

\* the Z kernels serve the rows with Z[k] set
ZRows == RowsNeverStop("Z", {cst \in MergedRows(FactorsZ) : Z(cst)})

\* the constructor of the random solver ensures b[i].min <= b[i].max
RandomRows ==
    RowsNeverStop("random", {cst \in MergedRows(Factors101) : bound_min(cst) <= bound_max(cst)})

RowInit ==
    /\ SolverIdle /\ PPIdle /\ ReadIdle /\ CallIdle
    /\ row \in BufferedRows \cup ZRows \cup RandomRows
    /\ upd = <<>>
    /\ kpc = "row"

Updated(selected, xs, dp) ==
    /\ upd' = [selected |-> selected, x |-> xs, dp |-> dp]
    /\ kpc' = "updated"
    /\ UNCHANGED <<row, non_row_vars>>

compute_update_row_01_eq ==
    /\ kpc = "row" /\ row.solver = "buffered"
    /\ C(row.cst) = {} /\ b_min(row) = b_max(row)
    /\ LET rsize == r_size(row.cst)
           selected == select_variables_equality(rsize, b_min(row))
       IN Updated(selected, affect_variables(row.R, selected, rsize), FALSE)

compute_update_row_01_ineq ==
    /\ kpc = "row" /\ row.solver = "buffered"
    /\ C(row.cst) = {} /\ b_min(row) # b_max(row)
    /\ LET rsize == r_size(row.cst)
       IN \E selected \in select_variables_inequality(rsize, b_min(row), b_max(row), row.stop) :
             Updated(selected, affect_variables(row.R, selected, rsize), FALSE)

compute_update_row_101_eq ==
    /\ kpc = "row" /\ row.solver = "buffered"
    /\ C(row.cst) # {} /\ b_min(row) = b_max(row)
    /\ LET rsize == r_size(row.cst)
           c_size == Cardinality(C(row.cst))
           selected == select_variables_equality(rsize, b_min(row) + c_size)
       IN Updated(selected, clean_up(row.cst, affect_variables(row.R, selected, rsize)), FALSE)

compute_update_row_101_ineq ==
    /\ kpc = "row" /\ row.solver = "buffered"
    /\ C(row.cst) # {} /\ b_min(row) # b_max(row)
    /\ LET rsize == r_size(row.cst)
           c_size == Cardinality(C(row.cst))
       IN \E selected \in select_variables_inequality(rsize, b_min(row) + c_size,
                                                      b_max(row) + c_size, row.stop) :
             Updated(selected, clean_up(row.cst, affect_variables(row.R, selected, rsize)), FALSE)

compute_update_row_Z_eq ==
    /\ kpc = "row" /\ row.solver = "Z"
    /\ Z(row.cst) /\ b_min(row) = b_max(row)
    /\ LET rsize == r_size(row.cst)
           bk == b_min(row) + abs(bk_move(row.cst))
       IN \E s \in select_variables_equality_Z(row.cst, row.R, rsize, bk) :
             Updated(s.selected,
                     clean_up(row.cst, affect_variables(row.R, s.selected, rsize)), s.dp)

compute_update_row_Z_ineq ==
    /\ kpc = "row" /\ row.solver = "Z"
    /\ Z(row.cst) /\ b_min(row) # b_max(row)
    /\ LET rsize == r_size(row.cst)
           bkmin == b_min(row) + abs(bk_move(row.cst))
           bkmax == b_max(row) + abs(bk_move(row.cst))
       IN \E s \in select_variables_inequality_Z(row.cst, row.R, rsize, bkmin, bkmax) :
             Updated(s.selected,
                     clean_up(row.cst, affect_variables(row.R, s.selected, rsize)), s.dp)

\* solver_random_inequalities_101coeff::compute_update_row, for one row
compute_update_row ==
    /\ kpc = "row" /\ row.solver = "random"
    /\ LET rsize == r_size(row.cst)
           x_row == random_assignment(row.cst, row.R, rsize, b_min(row), b_max(row))
       IN Updated(-1, x_row, FALSE)

NextRow ==
    \/ compute_update_row_01_eq
    \/ compute_update_row_01_ineq
    \/ compute_update_row_101_eq
    \/ compute_update_row_101_ineq
    \/ compute_update_row_Z_eq
    \/ compute_update_row_Z_ineq
    \/ compute_update_row

SpecRow == RowInit /\ [][NextRow]_all_vars

---------------------------------------------------------------------------
(* Properties of the row-update kernels *)

RowUpdated(name) == kpc = "updated" /\ row.solver = name

C19_ScanRowValueInBounds ==
    (RowUpdated("Z") /\ ~upd.dp) => is_valid_constraint(row, upd.x)

\* some 0/1 assignment of the row's variables meets its bounds
CanBeMet(rw) == \E xs \in [1 .. r_size(rw.cst) -> {0, 1}] : is_valid_constraint(rw, xs)

\* C20: after compute_update_row of the random solver on a row whose bounds
\* can be met, is_valid_constraint(k, x) holds
C20_PostConditionHolds ==
    (RowUpdated("random") /\ CanBeMet(row)) => is_valid_constraint(row, upd.x)

---------------------------------------------------------------------------
(* One pass of the inequalities-101 solvers over a sequence of rows *)

\* floatingpoint_type: the reals are held as multiples of 1/8, Unit is 1.0
Unit == 8

\* bound: the columns of the matrix of a pass
PassColumns == 3

\* the product of two reals
times(a, b) == (a * b) \div Unit

\* kappa / (1 - kappa)
kappa_ratio(kp) == (kp * Unit) \div (Unit - kp)

\* a merged constraint over the given columns
PassRow(cols, A, lo, hi) ==
    [elements |-> [e \in DOMAIN A |-> [factor |-> A[e], variable_index |-> cols[e]]],
     min |-> lo, max |-> hi]

\* the sides of the rows of a pass: an equality and two inequalities
PassSides == {<<1, 1>>, <<0, 1>>, <<0, 2>>}

\* the first row holds the columns 1 and 2
FirstRows ==
    {PassRow(<<1, 2>>, A, s[1], s[2]) : A \in {<<1, 1>>, <<1, -1>>}, s \in PassSides}

\* the second row shares the column 2 with the first row, or shares none
SecondRows ==
    {PassRow(<<2, 3>>, A, s[1], s[2]) : A \in {<<1, 1>>, <<-1, 1>>}, s \in PassSides}
    \cup {PassRow(<<3>>, <<1>>, s[1], s[2]) : s \in PassSides}

\* the rows visited by a pass: all the rows in an order, or the violated ones
Visits == {<<1>>, <<2>>, <<1, 2>>, <<2, 1>>}

\* the solver and the arguments of compute_update_row(first, last, kappa,
\* delta, theta): the matrix, the costs, P, pi and x as a former pass left them
Passes ==
    {[A |-> <<r1, r2>>,
      c |-> [j \in 1 .. PassColumns |-> cs[j] * Unit],
      P |-> <<[e \in DOMAIN r1.elements |-> ps[1] * Unit],
              [e \in DOMAIN r2.elements |-> ps[2] * Unit]>>,
      pi |-> <<pis * Unit, pis * Unit>>,
      x |-> [j \in 1 .. PassColumns |-> 0],
      R |-> vs,
      theta |-> th,
      kappa |-> Unit \div 2,
      delta |-> Unit] :
        r1 \in FirstRows, r2 \in SecondRows,
        cs \in {<<1, 2, 3>>, <<3, 2, 1>>},
        ps \in {<<0, 0>>, <<0, 1>>, <<1, 0>>, <<1, 1>>},
        pis \in {0, 1},
        vs \in Visits,
        th \in {Unit \div 2, Unit}}

\* the state of a solver: x, P, pi, and as history the number of times the P
\* cells of each row were multiplied by theta and the entries of R read by
\* each selection scan
solver_state(ps) ==
    [x |-> ps.x, P |-> ps.P, pi |-> ps.pi,
     decays |-> [k \in DOMAIN ps.A |-> 0],
     scans |-> <<>>]

\* the element of row k in column j, if any
in_column(A, k, j) == {e \in DOMAIN A[k].elements : A[k].elements[e].variable_index = j}

cell(A, k, j) == CHOOSE e \in in_column(A, k, j) : TRUE

\* sum of A(h, j) * pi(h) over the rows h of column j
sum_a_pi(A, st, j) ==
    SumSeq([k \in DOMAIN A |->
              IF in_column(A, k, j) = {} THEN 0
              ELSE factor(A[k], cell(A, k, j)) * st.pi[k]])

\* sum of A(h, j) * P(h, j) over the rows h of column j
sum_a_p(A, st, j) ==
    SumSeq([k \in DOMAIN A |->
              IF in_column(A, k, j) = {} THEN 0
              ELSE factor(A[k], cell(A, k, j)) * st.P[k][cell(A, k, j)]])

\* the streaming solver: the sums are taken when the row is visited
compute_reduced_costs(ps, st, k) ==
    [e \in DOMAIN ps.A[k].elements |->
        LET j == ps.A[k].elements[e].variable_index
        IN ps.c[j] - sum_a_pi(ps.A, st, j) - sum_a_p(ps.A, st, j)]

\* the buffered solver: the sums are read from sum_ap
compute_reduced_costs_buffered(ps, sum_ap, k) ==
    [e \in DOMAIN ps.A[k].elements |->
        LET j == ps.A[k].elements[e].variable_index
        IN ps.c[j] - sum_ap[j][1] - sum_ap[j][2]]

\* P[begin->value] *= theta over the row
decrease_preference(st, k, theta) ==
    [st EXCEPT !.P[k] = [e \in DOMAIN @ |-> times(@[e], theta)],
               !.decays[k] = @ + 1]

\* calculator_sort, minimize mode: R by increasing value; equal values keep
\* the order of their ids in both solvers
calculator_sort(value) ==
    CHOOSE o \in Orders(Len(value)) :
        \A a, b \in DOMAIN o :
            a < b => \/ value[o[a]] < value[o[b]]
                     \/ (value[o[a]] = value[o[b]] /\ o[a] < o[b])

\* stop_iterating, minimize mode: the reduced cost is positive
stop_iterating(v) == v > 0

\* select_variables_inequality with the entries of R it reads, counted from
\* 0: the loop runs while i != bkmax in the buffered solver and while
\* i <= bkmax in the streaming one; whatever is read at i = bkmax, the
\* index returned is bkmax - 1
scan_inequality(value, R, rsize, bkmin, bkmax, inclusive) ==
    LET lo == Min(bkmin, rsize)
        hi == Min(bkmax, rsize)
        last == IF inclusive THEN hi ELSE hi - 1
        stopped == {n \in lo .. last : n < rsize /\ stop_iterating(value[R[n + 1]])}
        first == CHOOSE n \in stopped : \A h \in stopped : n <= h
    IN IF stopped = {} THEN [selected |-> hi - 1, read |-> lo .. last]
       ELSE [selected |-> first - 1, read |-> lo .. first]

\* compute_update_row_101_ineq and its three siblings after the reduced
\* costs rv are known: negate, sort, select, affect_variables, clean up
update_row(ps, st, k, rv, inclusive) ==
    LET cst == ps.A[k]
        rsize == r_size(cst)
        c_size == Cardinality(C(cst))
        value == [e \in 1 .. rsize |-> IF e \in C(cst) THEN -rv[e] ELSE rv[e]]
        Pn == [e \in 1 .. rsize |-> IF e \in C(cst) THEN -st.P[k][e] ELSE st.P[k][e]]
        R == calculator_sort(value)
        bmin == bound_min(cst)
        bmax == bound_max(cst)
        scan == IF bmin = bmax
                THEN [selected |-> select_variables_equality(rsize, bmin + c_size),
                      read |-> {}]
                ELSE scan_inequality(value, R, rsize, bmin + c_size, bmax + c_size,
                                     inclusive)
        selected == scan.selected
        Rv(n) == value[R[n + 1]]
        none == selected < 0
        every == ~none /\ selected + 1 >= rsize
        d == IF none \/ every THEN ps.delta
             ELSE ps.delta + times(kappa_ratio(ps.kappa), Rv(selected + 1) - Rv(selected))
        one(e) == ~none /\ (every \/ place(R, e) <= selected)
        Pa == [e \in 1 .. rsize |-> IF one(e) THEN Pn[e] + d ELSE Pn[e] - d]
        pik == IF none THEN st.pi[k]
               ELSE IF every THEN st.pi[k] + Rv(selected)
               ELSE st.pi[k] + ((Rv(selected) + Rv(selected + 1)) \div 2)
    IN [st EXCEPT
          !.x = [j \in DOMAIN st.x |->
                   IF in_column(ps.A, k, j) = {} THEN st.x[j]
                   ELSE IF one(cell(ps.A, k, j)) # (cell(ps.A, k, j) \in C(cst))
                        THEN 1 ELSE 0],
          !.P[k] = [e \in 1 .. rsize |-> IF e \in C(cst) THEN -Pa[e] ELSE Pa[e]],
          !.pi[k] = pik,
          !.scans = Append(@, [k |-> k, r_size |-> rsize, read |-> scan.read])]

\* solver_inequalities_101coeff::compute_update_row: each row is decayed
\* and its reduced costs are computed when it is visited
streaming_pass(ps) ==
    LET run[n \in 0 .. Len(ps.R)] ==
            IF n = 0 THEN solver_state(ps)
            ELSE LET k == ps.R[n]
                     st == decrease_preference(run[n - 1], k, ps.theta)
                 IN update_row(ps, st, k, compute_reduced_costs(ps, st, k), TRUE)
    IN run[Len(ps.R)]

\* solver_inequalities_101coeff_buffered::compute_update_row: every cell of
\* P is multiplied by theta, sum_ap is filled for the columns of the rows to
\* visit, then the rows are visited
buffered_pass(ps) ==
    LET st0 == solver_state(ps)
        st == [st0 EXCEPT
                 !.P = [k \in DOMAIN @ |-> [e \in DOMAIN @[k] |-> times(@[k][e], ps.theta)]],
                 !.decays = [k \in DOMAIN @ |-> @[k] + 1]]
        sum_ap == [j \in 1 .. PassColumns |-> <<sum_a_pi(ps.A, st, j), sum_a_p(ps.A, st, j)>>]
        run[n \in 0 .. Len(ps.R)] ==
            IF n = 0 THEN st
            ELSE update_row(ps, run[n - 1], ps.R[n],
                            compute_reduced_costs_buffered(ps, sum_ap, ps.R[n]), FALSE)
    IN run[Len(ps.R)]

---------------------------------------------------------------------------
(* One pass: actions *)

PassInit ==
    /\ SolverIdle /\ PPIdle /\ ReadIdle /\ CallIdle
    /\ row \in Passes
    /\ upd = [done |-> {}, buffered |-> solver_state(row), streaming |-> solver_state(row)]
    /\ kpc = "pass"

Passed(name, st) ==
    /\ kpc = "pass"
    /\ name \notin upd.done
    /\ upd' = [upd EXCEPT !.done = @ \cup {name}, ![name] = st]
    /\ kpc' = IF upd.done = {} THEN "pass" ELSE "passed"
    /\ UNCHANGED <<row, non_row_vars>>

buffered_compute_update_row == Passed("buffered", buffered_pass(row))

streaming_compute_update_row == Passed("streaming", streaming_pass(row))

NextPass ==
    \/ buffered_compute_update_row
    \/ streaming_compute_update_row

SpecPass == PassInit /\ [][NextPass]_all_vars

---------------------------------------------------------------------------
(* Properties of a pass *)

\* the number of visits of row k in the pass
visits(ps, k) == Cardinality({n \in DOMAIN ps.R : ps.R[n] = k})

\* C25: after one pass of each solver from the same state and over the same
\* rows, the buffered solver and the streaming solver hold the same x
C25_BufferedAndStreamingAgree ==
    kpc = "passed" => upd.buffered.x = upd.streaming.x

\* C26: after a pass of either solver the P cells of each row were
\* multiplied by theta once per visit of the row, and the P cells of the rows
\* that were not visited are the ones the pass started with
C26_DecayOncePerVisit ==
    kpc \in {"pass", "passed"} =>
        \A name \in upd.done : \A k \in DOMAIN row.A :
            /\ upd[name].decays[k] = visits(row, k)
            /\ visits(row, k) = 0 => upd[name].P[k] = row.P[k]

\* C29: the selection scan of a row with bmin <= bmax reads only entries
\* R[i] with 0 <= i < r_size, in the buffered and in the streaming solver
C29_ScanReadsWithinRow ==
    kpc \in {"pass", "passed"} =>
        \A name \in upd.done : \A n \in DOMAIN upd[name].scans :
            LET scan == upd[name].scans[n]
            IN bound_min(row.A[scan.k]) <= bound_max(row.A[scan.k])
               => scan.read \subseteq 0 .. (scan.r_size - 1)

---------------------------------------------------------------------------
(* Calls of the free functions of the library: inputs and functions *)

\* bound: the longest sequence of factors read by the parser
MaxFactors == 3

\* bound: the factors read lie in -MaxFactor .. MaxFactor
MaxFactor == 2

non_call_vars == <<solver_vars, pp_vars, rd_vars, row_vars>>

\* the characters a token may start with
OperatorChars == {"<", ">", "=", "!", "1"}

\* the front of the stack when read_operator is called: one or two characters
OperatorInputs == [1 .. 1 -> OperatorChars] \cup [1 .. 2 -> OperatorChars]

\* the factors read_function_element passes to update_coefficient
FactorInputs == UNION {[1 .. n -> -MaxFactor .. MaxFactor] : n \in 1 .. MaxFactors}

\* update_coefficient without the early return on type 2
update_coefficient_without_return(m_coefficient_type, f) ==
    IF f < -1 \/ f > 1 THEN 2
    ELSE IF f = -1 THEN 1
    ELSE m_coefficient_type

\* parser_stack::update_coefficient
update_coefficient(m_coefficient_type, f) ==
    IF m_coefficient_type = 2 THEN 2
    ELSE IF f < -1 \/ f > 1 THEN 2
    ELSE IF f = -1 THEN 1
    ELSE m_coefficient_type

\* get_problem_type(p, coefficient)
get_problem_type(problem, coefficient) ==
    IF problem.greater_constraints = <<>> \/ problem.less_constraints = <<>>
    THEN CASE coefficient = 0 -> "equalities_01"
           [] coefficient = 1 -> "equalities_101"
           [] OTHER -> "equalities_Z"
    ELSE CASE coefficient = 0 -> "inequalities_01"
           [] coefficient = 1 -> "inequalities_101"
           [] OTHER -> "inequalities_Z"

\* the problems classified: each constraint list empty or not
TypedProblems ==
    [equal_constraints : {<<>>, <<0>>},
     greater_constraints : {<<>>, <<1>>},
     less_constraints : {<<>>, <<2>>},
     coefficient : 0 .. 2]

\* the raw problems whose solutions are evaluated: the three variables of
\* Names, an objective and at most one equality constraint
SolvedProblems ==
    [names : {Names},
     objective : {[elements |-> <<Elem(1, 1), Elem(2, 2), Elem(3, 3)>>, value |-> 0]},
     equal_constraints : ConstraintLists(0),
     greater_constraints : {<<>>},
     less_constraints : {<<>>}]

\* a result of the problem: the variables in kept are in variable_name with
\* their values in the last solution, the others were fixed by the
\* preprocessor and are in affected_vars
ResultOf(status, kept, value) ==
    LET keep == Keep([j \in DOMAIN Names |-> j], kept)
        gone == Keep([j \in DOMAIN Names |-> j], DOMAIN Names \ kept)
    IN [status |-> status,
        variable_name |-> [j \in DOMAIN keep |-> Names[keep[j]]],
        variables |-> [j \in DOMAIN keep |-> value[keep[j]]],
        affected_vars |-> [names |-> [j \in DOMAIN gone |-> Names[gone[j]]],
                           values |-> [j \in DOMAIN gone |-> value[gone[j]]]]]

Results ==
    {ResultOf(status, kept, value) :
        status \in {"success", "limit_reached"},
        kept \in (SUBSET DOMAIN Names) \ {{}},
        value \in [DOMAIN Names -> BOOLEAN]}

\* a failed bx_expects
PreconditionFailure == [failed |-> TRUE]

\* a call that returned
Value(v) == [failed |-> FALSE, value |-> v]

\* make_variable_value: the value of each variable of pb, looked up by name
\* in variable_name and in affected_vars
make_variable_value(problem, res) ==
    [j \in DOMAIN problem.names |->
        IF \E k \in DOMAIN res.variable_name : res.variable_name[k] = problem.names[j]
        THEN res.variables[CHOOSE k \in DOMAIN res.variable_name :
                              res.variable_name[k] = problem.names[j]]
        ELSE res.affected_vars.values[CHOOSE k \in DOMAIN res.affected_vars.names :
                                         res.affected_vars.names[k] = problem.names[j]]]

\* compute_function(fct, vars)
compute_function(fct, variable_value) ==
    SumSeq([e \in DOMAIN fct |->
              IF variable_value[fct[e].variable_index] THEN fct[e].factor ELSE 0])

is_valid_solution_impl(problem, variable_value) ==
    /\ \A c \in DOMAIN problem.equal_constraints :
          compute_function(problem.equal_constraints[c].elements, variable_value)
            = problem.equal_constraints[c].value
    /\ \A c \in DOMAIN problem.less_constraints :
          compute_function(problem.less_constraints[c].elements, variable_value)
            <= problem.less_constraints[c].value
    /\ \A c \in DOMAIN problem.greater_constraints :
          compute_function(problem.greater_constraints[c].elements, variable_value)
            >= problem.greater_constraints[c].value

compute_solution_impl(problem, variable_value) ==
    problem.objective.value
      + compute_function(problem.objective.elements, variable_value)

is_valid_solution(problem, res) ==
    IF res.status # "success" THEN Value(FALSE)
    ELSE IF Len(problem.names) # Len(res.variable_name) + Len(res.affected_vars.names)
              \/ Len(res.variables) # Len(res.variable_name)
    THEN PreconditionFailure
    ELSE Value(is_valid_solution_impl(problem, make_variable_value(problem, res)))

compute_solution(problem, res) ==
    IF res.status # "success" THEN PreconditionFailure
    ELSE IF Len(problem.names) # Len(res.variable_name)
              \/ Len(res.variables) # Len(res.variable_name)
    THEN PreconditionFailure
    ELSE Value(compute_solution_impl(problem, make_variable_value(problem, res)))

---------------------------------------------------------------------------
(* Calls of the free functions of the library: one call each *)

CallInputs ==
    {[fn |-> "get_problem_type", problem |-> t] : t \in TypedProblems}
    \cup {[fn |-> "read_operator", str |-> s] : s \in OperatorInputs}
    \cup {[fn |-> "update_coefficient", factors |-> f] : f \in FactorInputs}
    \cup {[fn |-> "compute_solution", problem |-> t, result |-> u] :
             t \in SolvedProblems, u \in Results}

\* the parser_stack is constructed with m_coefficient_type(0)
CallInit ==
    /\ SolverIdle /\ PPIdle /\ ReadIdle /\ RowIdle
    /\ arg \in CallInputs
    /\ val = IF arg.fn = "update_coefficient"
             THEN [m_coefficient_type |-> 0, read |-> 0]
             ELSE <<>>
    /\ cpc = "call"

CallGetProblemType ==
    /\ cpc = "call" /\ arg.fn = "get_problem_type"
    /\ val' = get_problem_type(arg.problem, arg.problem.coefficient)
    /\ cpc' = "returned"
    /\ UNCHANGED <<arg, non_call_vars>>

CallReadOperator ==
    /\ cpc = "call" /\ arg.fn = "read_operator"
    /\ val' = read_operator(arg.str)
    /\ cpc' = "returned"
    /\ UNCHANGED <<arg, non_call_vars>>

\* read_function_element: the next factor is read and update_coefficient
\* is called with it
ReadFunctionElement ==
    /\ cpc = "call" /\ arg.fn = "update_coefficient"
    /\ val.read < Len(arg.factors)
    /\ val' = [m_coefficient_type |->
                  update_coefficient(val.m_coefficient_type, arg.factors[val.read + 1]),
               read |-> val.read + 1]
    /\ cpc' = IF val.read + 1 = Len(arg.factors) THEN "returned" ELSE "call"
    /\ UNCHANGED <<arg, non_call_vars>>

CallIsValidSolution ==
    /\ cpc = "call" /\ arg.fn = "compute_solution"
    /\ val' = [valid |-> is_valid_solution(arg.problem, arg.result)]
    /\ cpc' = "valid"
    /\ UNCHANGED <<arg, non_call_vars>>

CallComputeSolution ==
    /\ cpc = "valid" /\ arg.fn = "compute_solution"
    /\ val' = [valid |-> val.valid, value |-> compute_solution(arg.problem, arg.result)]
    /\ cpc' = "returned"
    /\ UNCHANGED <<arg, non_call_vars>>

NextCall ==
    \/ CallGetProblemType
    \/ CallReadOperator
    \/ ReadFunctionElement
    \/ CallIsValidSolution
    \/ CallComputeSolution

SpecCall == CallInit /\ [][NextCall]_all_vars

---------------------------------------------------------------------------
(* Properties of the free functions *)

Returned(fn) == cpc = "returned" /\ arg.fn = fn

\* the solver type of the inequalities family for a coefficient regime
InequalitiesType(coefficient) ==
    CASE coefficient = 0 -> "inequalities_01"
      [] coefficient = 1 -> "inequalities_101"
      [] OTHER -> "inequalities_Z"

\* C21: get_problem_type returns an equalities type only for a problem without
\* greater and without less constraints; with a greater or a less constraint
\* it returns the inequalities type of the coefficient regime
C21_EqualitiesOnlyWithoutInequalities ==
    Returned("get_problem_type") =>
        /\ val \in {"equalities_01", "equalities_101", "equalities_Z"}
              => /\ arg.problem.greater_constraints = <<>>
                 /\ arg.problem.less_constraints = <<>>
        /\ (arg.problem.greater_constraints # <<>> \/ arg.problem.less_constraints # <<>>)
              => val = InequalitiesType(arg.problem.coefficient)

\* the coefficient type of a sequence of factors
CoefficientType(factors) ==
    IF \E k \in DOMAIN factors : factors[k] > 1 \/ factors[k] < -1 THEN 2
    ELSE IF \E k \in DOMAIN factors : factors[k] = -1 THEN 1
    ELSE 0

\* C27: after any sequence of factors the coefficient type is 2 iff some
\* factor had |factor| > 1, 1 iff none had and some factor was -1, 0
\* otherwise, and it never decreases when a further factor is read
C27_CoefficientTypeClassifies ==
    [][arg.fn = "update_coefficient" =>
          /\ val'.m_coefficient_type = CoefficientType(SubSeq(arg.factors, 1, val'.read))
          /\ val'.m_coefficient_type >= val.m_coefficient_type]_all_vars

\* a factor -1 has been read after a factor of magnitude 2
C27_Witness ==
    /\ Returned("update_coefficient")
    /\ val.read = MaxFactors
    /\ arg.factors[1] = 2 /\ arg.factors[MaxFactors] = -1
    /\ val.m_coefficient_type = 2

\* the operator each of the seven spellings denotes
OperatorOf(str) ==
    CASE str \in {<<"<">>, <<"<", "=">>, <<"=", "<">>} -> "less"
      [] str \in {<<">">>, <<">", "=">>} -> "greater"
      [] str \in {<<"=">>, <<"=", "=">>} -> "equal"
      [] OTHER -> "none"

\* C28: read_operator returns less for <, <= and =<, greater for > and >=,
\* equal for = and ==, and raises bad_operator for any other first character
C28_OperatorsClassified ==
    Returned("read_operator") =>
        /\ OperatorOf(arg.str) # "none" => val.type = OperatorOf(arg.str)
        /\ arg.str[1] \notin {"<", ">", "="} => val.type = "bad_operator"

\* the objective value of the assignment merged from variable_name and
\* affected_vars
MergedValue(problem, res) ==
    problem.objective.value
      + SumSeq([e \in DOMAIN problem.objective.elements |->
                  LET name == problem.names[problem.objective.elements[e].variable_index]
                      on == \/ \E k \in DOMAIN res.variable_name :
                                  res.variable_name[k] = name /\ res.variables[k]
                            \/ \E k \in DOMAIN res.affected_vars.names :
                                  res.affected_vars.names[k] = name /\ res.affected_vars.values[k]
                  IN IF on THEN problem.objective.elements[e].factor ELSE 0])

\* C30: for a pair that is_valid_solution accepts, compute_solution returns
\* the objective value of the merged assignment
C30_ComputeAcceptsValid ==
    (Returned("compute_solution") /\ val.valid = Value(TRUE))
        => val.value = Value(MergedValue(arg.problem, arg.result))

---------------------------------------------------------------------------
(* The preprocessor: indices of the reduced problem, assertions of reduce *)

\* the variable indices the reduced problem q refers to, in its constraints
\* and in its objective
ReferencedIndices(q) ==
    {q.objective.elements[e].variable_index : e \in DOMAIN q.objective.elements}
    \cup UNION {UNION {{q[k][c].elements[e].variable_index :
                          e \in DOMAIN q[k][c].elements} : c \in DOMAIN q[k]} :
                  k \in {Kinds[1], Kinds[2], Kinds[3]}}

\* C22: in the problem affect returns, every variable index of an element of
\* a constraint or of the objective is an index of the reduced variable list
\* and denotes there the variable it denotes in the input
C22_IndicesDenoteSameVariables ==
    ppc = "solve" =>
        \A n \in ReferencedIndices(out[job].problems[1]) :
            /\ n \in DOMAIN out[job].problems[1].names
            /\ out[job].problems[1].names[n] = pb.names[n]

\* some assignment of the input variables with the value of the branch for
\* the target satisfies every constraint of the input
BranchSatisfiable ==
    \E y \in [DOMAIN Names -> BOOLEAN] :
        y[target] = order[branch] /\ SatisfiesProblem(pb, y)

\* C23: on a satisfiable branch no assertion of reduce fails: a constraint
\* whose counter reaches 1 has exactly one variable that is not assigned
C23_ReduceAssertionsHold ==
    ppc = "internal" => ~BranchSatisfiable

---------------------------------------------------------------------------
(* The preprocessor: termination of the propagation *)

\* the inputs whose constraints link a, b and c in a cycle: an equal
\* constraint on a and b, a greater constraint on b and c and a less
\* constraint on a and c
LinkedInit ==
    /\ PPInit
    /\ pb.equal_constraints # <<>> /\ pb.greater_constraints # <<>>
    /\ pb.less_constraints # <<>>
    /\ pb.equal_constraints[1].elements = <<Elem(1, 1), Elem(1, 2)>>
    /\ pb.greater_constraints[1].elements = <<Elem(1, 2), Elem(1, 3)>>
    /\ pb.less_constraints[1].elements = <<Elem(1, 1), Elem(-1, 3)>>

\* every step that is enabled is eventually taken: the entry points run
\* without waiting for anything
FairSpecPP == LinkedInit /\ [][PPNext]_all_vars /\ WF_all_vars(PPNext)

\* no variable is twice in the sequence s
NoRepeat(s) == \A j, k \in DOMAIN s : s[j] = s[k] => j = k

\* the variables waiting in the lifo, in order
Enqueued(data) == [e \in DOMAIN data |-> data[e][1]]

\* every assigned variable has been pushed, and no variable has been pushed
\* twice: the popped and the waiting variables are all different
PushedOnce ==
    /\ NoRepeat(popped \o Enqueued(lifo))
    /\ \A v \in DOMAIN vars :
          \E k \in DOMAIN (popped \o Enqueued(lifo)) : (popped \o Enqueued(lifo))[k] = v

\* C24: the propagation ends for every input; a variable is popped and
\* processed at most once, and a variable that is assigned or in the lifo is
\* never pushed again
C24_PropagationTerminates == []PushedOnce /\ <>(ppc = "done")

\* split has ended on constraints that link a, b and c in a cycle, and the
\* last propagation popped the three variables
C24_Witness ==
    /\ ppc = "done"
    /\ out[Jobs[3]].state = "ok"
    /\ Len(popped) = 3
    /\ pb.equal_constraints # <<>>
    /\ pb.greater_constraints # <<>>
    /\ pb.less_constraints # <<>>

=============================================================================
